---------------------------- MODULE Spec2Model ----------------------------
(***************************************************************************)
(* Continuous marketplace simulation (generator/scheduler.py): the growth  *)
(* model of EconomicSimulator, the three growth accumulators of            *)
(* ContinuousGenerator and the periodic jobs run_scheduler registers.      *)
(*                                                                         *)
(* Real numbers are fixed-point integers counting hundredths (Unit = 100   *)
(* is 1.0).  Random draws are nondeterministic choices from small subsets  *)
(* of their ranges.                                                        *)
(***************************************************************************)
EXTENDS Integers, Sequences, FiniteSets, TLC

----------------------------------------------------------------------------
(* Fixed-point helpers                                                     *)

Unit == 10 * 10

Min(a, b) == IF a <= b THEN a ELSE b
Max(a, b) == IF a >= b THEN a ELSE b

\* floor(x * n / d) without forming x * n (d > 0, 0 <= n)
MulDiv(x, n, d) == (x \div d) * n + ((x % d) * n) \div d

RECURSIVE SqrtSearch(_, _, _)
SqrtSearch(n, lo, hi) ==
    IF lo >= hi THEN lo
    ELSE LET mid == (lo + hi + 1) \div 2
         IN  IF mid * mid <= n THEN SqrtSearch(n, mid, hi)
                               ELSE SqrtSearch(n, lo, mid - 1)

\* floor(sqrt(n)) for 0 <= n < 2^31
ISqrt(n) == SqrtSearch(n, 0, 46340)

\* math.sqrt of a value in hundredths, in hundredths: sqrt(x / 100) * 100
Sqrt(x) == IF x < 20000000 THEN ISqrt(x * Unit) ELSE 10 * ISqrt(x)

RECURSIVE Digits(_)
\* floor(log10(u)) for u >= 1
Digits(u) == IF u < 10 THEN 0 ELSE 1 + Digits(u \div 10)

RECURSIVE Pow10(_)
Pow10(k) == IF k = 0 THEN 1 ELSE 10 * Pow10(k - 1)

\* 1000 * 10^(k/20), k = 1..19: the mantissas at which log10 gains 0.05
LogSteps ==
    << 1122, 1259, 1413, 1585, 1778, 1995, 2239, 2512, 2818, 3162,
       3548, 3981, 4467, 5012, 5623, 6310, 7079, 7943, 8913 >>

\* math.log10(u) in hundredths, rounded down to a multiple of 0.05 (u >= 1)
Log10(u) ==
    LET d == Digits(u)
        m == IF d >= 3 THEN u \div Pow10(d - 3) ELSE u * Pow10(3 - d)
    IN  100 * d + 5 * Cardinality({k \in 1..19 : LogSteps[k] <= m})

\* 100 * 10^(k/100), k = 0..99
Exp10Table ==
    << 100, 102, 104, 107, 109, 112, 114, 117, 120, 123,
       125, 128, 131, 134, 138, 141, 144, 147, 151, 154,
       158, 162, 165, 169, 173, 177, 181, 186, 190, 194,
       199, 204, 208, 213, 218, 223, 229, 234, 239, 245,
       251, 257, 263, 269, 275, 281, 288, 295, 301, 309,
       316, 323, 331, 338, 346, 354, 363, 371, 380, 389,
       398, 407, 416, 426, 436, 446, 457, 467, 478, 489,
       501, 512, 524, 537, 549, 562, 575, 588, 602, 616,
       630, 645, 660, 676, 691, 707, 724, 741, 758, 776,
       794, 812, 831, 851, 870, 891, 912, 933, 954, 977 >>

\* u ** 0.1 in hundredths (0 ** 0.1 = 0; u < 2^31 keeps the exponent below 1)
PowTenth(u) == IF u = 0 THEN 0 ELSE Exp10Table[(Log10(u) \div 10) + 1]

\* random.gauss(mu, sigma) for a draw z standard deviations from the mean
Gauss(mu, sigma, z) == mu + z * sigma

----------------------------------------------------------------------------
(* MarketSimulator                                                         *)

seasonal_factors ==
    << 115, 95, 105, 100, 98, 90, 85, 92, 110, 120, 125, 130 >>

get_seasonal_multiplier(month) ==
    IF month \in 1..12 THEN seasonal_factors[month] ELSE Unit

get_weekday_multiplier(weekday) ==
    IF weekday \in {5, 6} THEN 125
    ELSE IF weekday = 0 THEN 85
    ELSE Unit

----------------------------------------------------------------------------
(* EconomicSimulator                                                       *)

MARKET_POTENTIAL == 300000000
\* INNOVATION_COEFF = 0.0000005 = 1 / InnovationDen
InnovationDen == 2000000
\* IMITATION_COEFF = 0.002 = 1 / ImitationDen
ImitationDen == 500
GAMES_SATURATION_POINT == 50000
\* the floor of games_attraction, in whole users
AttractionFloor == 550
\* the network effect applies above this many users
NetworkFrom == 1000
\* min(2.5, ...) in hundredths
NetworkCap == 250
\* max_daily_growth = current_users * 0.05 = current_users / CapDen
CapDen == 20

\* IMITATION_COEFF * (current_users / MARKET_POTENTIAL) * (MARKET_POTENTIAL - current_users)
\* in hundredths: u * (M - u) / (5 * M), with u split as uh * 30000 + ul
\* (5 * M = 30000 * 50000) so that no product leaves 32 bits
imitation_effect(current_users) ==
    LET rest == MARKET_POTENTIAL - current_users
        den  == (ImitationDen \div Unit) * MARKET_POTENTIAL
        hi   == 30000
        lo   == den \div hi
    IN  MulDiv(rest, current_users \div hi, lo)
          + ((rest \div lo) * (current_users % hi)) \div hi

innovation_effect(current_users) ==
    (MARKET_POTENTIAL - current_users) \div (InnovationDen \div Unit)

games_attraction(current_games) ==
    IF current_games < GAMES_SATURATION_POINT
    THEN \* games * 0.1 * (1 - games / GSP), floored at 550
         Max((current_games * (GAMES_SATURATION_POINT - current_games))
                 \div (GAMES_SATURATION_POINT \div 10),
             AttractionFloor * Unit)
    ELSE \* games * 0.01
         current_games

network_effect(current_users) ==
    IF current_users > NetworkFrom
    THEN \* network_value = max(1, users ** 1.1 / 10 ** 5)
         LET log_value == Max(0, (11 * Log10(current_users)) \div 10 - 5 * Unit)
         IN  Min(NetworkCap, Unit + (log_value * 3) \div 10)
    ELSE Unit

total_inflow(current_users, current_games, month) ==
    MulDiv(MulDiv(innovation_effect(current_users) + imitation_effect(current_users)
                      + games_attraction(current_games),
                  network_effect(current_users), Unit),
           get_seasonal_multiplier(month), Unit)

\* a cap that allows one user a day whatever the current users are
max_daily_growth_floored(current_users) ==
    Max(current_users * (Unit \div CapDen), Unit)

max_daily_growth(current_users) == current_users * (Unit \div CapDen)

\* random_factor is the draw of random.uniform(0.6, 1.4), in hundredths
\* the growth without the cap of 5 % of the current users
UncappedUserGrowth(current_users, current_games, month, random_factor) ==
    MulDiv(total_inflow(current_users, current_games, month), random_factor, Unit)

calculate_daily_user_growth(current_users, current_games, month, random_factor) ==
    Min(MulDiv(total_inflow(current_users, current_games, month), random_factor, Unit),
        max_daily_growth(current_users))

AudienceFrom == 10000
CompetitionFrom == 5000

audience_factor(current_users) ==
    IF current_users > AudienceFrom
    THEN (Log10(Max(1, current_users \div AudienceFrom)) * 3) \div 2 + Unit
    ELSE Unit

competition_factor(current_devs) ==
    IF current_devs > CompetitionFrom
    THEN (CompetitionFrom * Unit) \div current_devs
    ELSE Unit

\* 0.2 * audience_factor * competition_factor
base_probability(current_devs, current_users) ==
    (audience_factor(current_users) * competition_factor(current_devs)) \div (5 * Unit)

\* z is the draw of random.gauss, in standard deviations
calculate_daily_dev_growth(current_devs, current_users, z) ==
    LET p == base_probability(current_devs, current_users)
    IN  IF p > 0 THEN Max(0, Gauss(p, Sqrt(p), z)) ELSE 0

uniqueness_factor(current_games) ==
    IF current_games < 1000 THEN Unit
    ELSE IF current_games < 10000 THEN 80
    ELSE IF current_games < 50000 THEN 55
    ELSE 30

\* min(current_users ** 0.1, 10)
demand_factor(current_users) == Min(PowTenth(current_users), 10 * Unit)

expected_games(active_devs, current_games, current_users, trend_factor) ==
    MulDiv(MulDiv(active_devs * demand_factor(current_users),
                  uniqueness_factor(current_games), Unit),
           trend_factor, Unit)

\* trend_factor is the draw of random.uniform(0.5, 1.5), z that of random.gauss
calculate_daily_game_growth(active_devs, current_games, current_users, trend_factor, z) ==
    LET e == expected_games(active_devs, current_games, current_users, trend_factor)
    IN  IF e > 0 THEN Max(0, Gauss(e, Sqrt(e), z)) ELSE 0

----------------------------------------------------------------------------
(* State                                                                   *)

VARIABLES
    \* Store: the users table, as the number of rows whose last_active lies
    \* before / not before every retention border of the explored window
    users_old, users_recent,
    \* Store: row counts of the developers and games tables
    developers, games,
    \* ContinuousGenerator fields
    active_users_cnt, new_users, new_devs, new_games,
    \* TimeSimulator: get_current_sim_day(), and the month and weekday of sim_start_date
    sim_day, start_month, start_weekday,
    \* the main thread inside run_scheduler, and the wake-ups of its scheduler so far
    main_pc, ticks,
    \* the position of each job of the BackgroundScheduler, how its last run ended,
    \* and the submitted jobs that have not started, in the order they will
    job_pc, job_outcome, queue,
    \* locals of calculate_daily_growth and of the three generate_*_batch jobs
    growth_loc, batch_size,
    \* history: the growth added to each accumulator, and the whole units drained from it
    added, emitted,
    \* Store failures (connection or statement errors) injected so far
    faults,
    \* arguments and result of one call of the growth model (SpecGrowth)
    call,
    \* Store: the rows of the users table, user_id -> last_active (SpecRetention)
    last_active,
    \* locals of update_active_users and of delete_old_users (SpecRetention)
    update_loc, delete_loc,
    \* the last statement that changed or tried to change the users table
    store_log,
    \* per job: the runs the scheduler has started, and its runs not yet
    \* returned (SpecCadence)
    fired, in_flight,
    \* Store: the ids in the users, developers and games tables (SpecFactory)
    store_ids,
    \* DataGenerator: user_id_counter, developer_id_counter, game_id_counter
    id_counter,
    \* history: the ids the DataGenerator of this process has put on records
    assigned,
    \* the records a batch job has created and not yet passed to the Store
    pending,
    \* the file-based generator: its market_state and stats dicts (SpecLegacy)
    market_state, stats,
    \* DatabaseManager: the connections taken from the pool and not returned
    checked_out

store_vars == << users_old, users_recent, developers, games >>
acc_vars   == << new_users, new_devs, new_games >>
clock_vars == << sim_day, start_month, start_weekday >>
hist_vars  == << added, emitted >>
factory_vars == << store_ids, id_counter, assigned, pending >>
legacy_vars == << market_state, stats >>
side_vars  == << factory_vars, legacy_vars, checked_out >>
ext_vars   == << last_active, update_loc, delete_loc, store_log, fired, in_flight, side_vars >>
vars == << users_old, users_recent, developers, games,
           active_users_cnt, new_users, new_devs, new_games,
           sim_day, start_month, start_weekday, main_pc, ticks,
           job_pc, job_outcome, queue, growth_loc, batch_size, added, emitted,
           faults, call, ext_vars >>

Kinds == {"users", "developers", "games"}

\* the ids run_scheduler gives its jobs, and IntervalTrigger(minutes=...)
Jobs == {"calculate_daily_growth", "generate_users", "generate_developers",
         "generate_games", "update_active_users", "delete_old_users",
         "add_transaction", "print_stats"}

GrowthJob == "calculate_daily_growth"

EmitJob(kind) ==
    CASE kind = "users"      -> "generate_users"
      [] kind = "developers" -> "generate_developers"
      [] kind = "games"      -> "generate_games"

DeleteInterval == 30
StatsInterval == 5

Interval(job) ==
    CASE job = "delete_old_users" -> DeleteInterval
      [] job = "print_stats"      -> StatsInterval
      [] OTHER                    -> 1

\* `if self.new_users >= 5`, `if self.new_devs >= 1`, `if self.new_games >= 1`
UsersThreshold == 5
DevsThreshold == 1
GamesThreshold == 1

Threshold(kind) ==
    CASE kind = "users"      -> UsersThreshold
      [] kind = "developers" -> DevsThreshold
      [] kind = "games"      -> GamesThreshold

\* `self.new_users %= 1`, `self.new_devs %= 1`, `self.new_games %= 1`
UsersModulus == 1
DevsModulus == 1
GamesModulus == 1

Modulus(kind) ==
    CASE kind = "users"      -> UsersModulus
      [] kind = "developers" -> DevsModulus
      [] kind = "games"      -> GamesModulus

Accumulator(kind) ==
    CASE kind = "users"      -> new_users
      [] kind = "developers" -> new_devs
      [] kind = "games"      -> new_games

\* user_repo.get_user_count(), developer_repo.get_developer_count(), game_repo.get_game_count()
get_user_count == users_old + users_recent
get_developer_count == developers
get_game_count == games

\* TimeSimulator.get_simulated_date().month and get_simulated_datetime().weekday();
\* the explored days stay inside the month of sim_start_date
sim_month == start_month
sim_weekday == (start_weekday + sim_day) % 7

----------------------------------------------------------------------------
(* Bounds and draws                                                        *)

\* simulated days (real minutes) explored, and wake-ups of the scheduler in them
MaxDay == 30
MaxTicks == 1
\* jobs the thread pool of the scheduler runs at the same time
Workers == 2
\* Store failures injected in one behaviour
MaxFaults == 1

\* random.uniform(0.1, 0.25), random.uniform(0.9, 1.1), random.uniform(0.6, 1.4),
\* random.uniform(0.5, 1.5), in hundredths; random.gauss, in standard deviations
BaseActivityDraws == {10, 25}
VariationDraws == {110}
RandomFactorDraws == {60, 140}
TrendDraws == {50, 150}
GaussDraws == {-3, 2}

\* the Store contents the constructor may find
InitialStores ==
    { [old |-> 20,  recent |-> 0,   developers |-> 0,   games |-> 0],
      [old |-> 0,   recent |-> 120, developers |-> 175, games |-> 20] }

StartDates == { [month |-> 12, weekday |-> 4] }

NoCall == [fn |-> "none", current_users |-> 0, current_games |-> 0,
           current_devs |-> 0, month |-> 1, result |-> 0]

NoUpdate == [all_user_ids |-> << >>, active_ids |-> << >>, position |-> 0,
             current_time |-> 0, success_count |-> 0, tried |-> 0]

NoDelete == [border_date |-> 0, delete_cnt |-> 0]

NoBatch == [kind |-> "none", ids |-> {}, owner |-> << >>, left |-> 0]

NoMarket == [total_users |-> 0, total_developers |-> 0, total_games |-> 0,
             last_update_day |-> -1]

NoStats == [users |-> 0, developers |-> 0, games |-> 0, daily_stats |-> << >>]

\* the file-based generator is not constructed; every connection is in the pool
InitRest ==
    /\ market_state = NoMarket
    /\ stats = NoStats
    /\ checked_out = 0

\* the tables are not followed by id, no DataGenerator is followed
InitSide ==
    /\ store_ids = [k \in Kinds |-> {}]
    /\ id_counter = [k \in Kinds |-> 0]
    /\ assigned = [k \in Kinds |-> {}]
    /\ pending = NoBatch
    /\ InitRest

\* no row is followed singly, no job has been run by the scheduler
InitExt ==
    /\ last_active = << >>
    /\ update_loc = NoUpdate
    /\ delete_loc = NoDelete
    /\ store_log = "none"
    /\ fired = [j \in Jobs |-> 0]
    /\ in_flight = [j \in Jobs |-> 0]
    /\ InitSide

\* ContinuousGenerator.__init__: the state when run_scheduler is entered
InitScheduler ==
    /\ \E s \in InitialStores :
          /\ users_old = s.old
          /\ users_recent = s.recent
          /\ developers = s.developers
          /\ games = s.games
    /\ \E d \in StartDates :
          /\ start_month = d.month
          /\ start_weekday = d.weekday
    /\ sim_day = 0
    /\ active_users_cnt = 0
    /\ new_users = 0
    /\ new_devs = 0
    /\ new_games = 0
    /\ main_pc = "first_growth"
    /\ ticks = 0
    /\ job_pc = [j \in Jobs |-> IF j = GrowthJob THEN "count_users" ELSE "idle"]
    /\ job_outcome = [j \in Jobs |-> "none"]
    /\ queue = << >>
    /\ growth_loc = [current_users |-> 0, current_games |-> 0, current_devs |-> 0, left |-> 0]
    /\ batch_size = [k \in Kinds |-> 0]
    /\ added = [k \in Kinds |-> 0]
    /\ emitted = [k \in Kinds |-> 0]
    /\ faults = 0
    /\ call = NoCall
    /\ InitExt

----------------------------------------------------------------------------
(* Jobs: common                                                            *)

Running(job) == job_pc[job] \notin {"idle", "due"}

\* A worker thread takes the next submitted job.
Start(job) ==
    /\ job_pc[job] = "due"
    /\ queue # << >>
    /\ Head(queue) = job
    /\ Cardinality({o \in Jobs : Running(o)}) < Workers
    /\ queue' = Tail(queue)

Goto(job, label) == job_pc' = [job_pc EXCEPT ![job] = label]

\* The job returns.  A job runs inside the executor of the BackgroundScheduler,
\* which logs an exception of the job and goes on; the first
\* calculate_daily_growth is called by run_scheduler itself, on the main thread.
Return(job) ==
    /\ job_pc' = [job_pc EXCEPT ![job] = "idle"]
    /\ job_outcome' = [job_outcome EXCEPT ![job] = "returned"]
    /\ main_pc' = IF job = GrowthJob /\ main_pc = "first_growth"
                  THEN "scheduling" ELSE main_pc

Raise(job) ==
    /\ job_pc' = [job_pc EXCEPT ![job] = "idle"]
    /\ job_outcome' = [job_outcome EXCEPT ![job] = "raised"]
    /\ main_pc' = IF job = GrowthJob /\ main_pc = "first_growth"
                  THEN "crashed" ELSE main_pc

\* a Store call fails: db_manager.get_connection or a statement raises
StoreFails ==
    /\ faults < MaxFaults
    /\ faults' = faults + 1

----------------------------------------------------------------------------
(* calculate_daily_growth                                                  *)

\* activity_rate = min(max(base * seasonal * weekday * variation, 0.25), 0.8),
\* in ten-thousandths
RateDen == Unit * Unit
RateMin == 25 * Unit
RateMax == 80 * Unit

\* the product of the four factors, not clamped
UnclampedRate(base_activity, month, weekday, random_variation) ==
    (base_activity * get_seasonal_multiplier(month)
         * get_weekday_multiplier(weekday) * random_variation) \div RateDen

activity_rate(base_activity, month, weekday, random_variation) ==
    Min(Max((base_activity * get_seasonal_multiplier(month)
                 * get_weekday_multiplier(weekday) * random_variation) \div RateDen,
            RateMin),
        RateMax)

\* int(current_users * activity_rate)
ActiveCount(current_users, rate) == MulDiv(current_users, rate, RateDen)

\* current_users = user_repo.get_user_count()
GrowthCountUsers ==
    /\ \/ /\ main_pc = "first_growth"
          /\ job_pc[GrowthJob] = "count_users"
          /\ UNCHANGED queue
       \/ Start(GrowthJob)
    /\ \/ /\ growth_loc' = [growth_loc EXCEPT !.current_users = get_user_count]
          /\ Goto(GrowthJob, "count_games")
          /\ UNCHANGED << main_pc, job_outcome, faults >>
       \/ /\ StoreFails
          /\ Raise(GrowthJob)
          /\ UNCHANGED growth_loc
    /\ UNCHANGED << store_vars, acc_vars, clock_vars, hist_vars,
                    active_users_cnt, batch_size, ticks, call, ext_vars >>

\* current_games = game_repo.get_game_count()
GrowthCountGames ==
    /\ job_pc[GrowthJob] = "count_games"
    /\ growth_loc' = [growth_loc EXCEPT !.current_games = get_game_count]
    /\ Goto(GrowthJob, "count_devs")
    /\ UNCHANGED << store_vars, acc_vars, clock_vars, hist_vars, main_pc, job_outcome,
                    active_users_cnt, batch_size, faults, ticks, queue, call, ext_vars >>

\* current_devs = developer_repo.get_developer_count()
GrowthCountDevs ==
    /\ job_pc[GrowthJob] = "count_devs"
    /\ growth_loc' = [growth_loc EXCEPT !.current_devs = get_developer_count]
    /\ Goto(GrowthJob, "activity")
    /\ UNCHANGED << store_vars, acc_vars, clock_vars, hist_vars, main_pc, job_outcome,
                    active_users_cnt, batch_size, faults, ticks, queue, call, ext_vars >>

\* self.active_users_cnt = int(current_users * activity_rate);
\* then the left operand of `self.new_users += ...` is loaded
GrowthActivity ==
    /\ job_pc[GrowthJob] = "activity"
    /\ \E b \in BaseActivityDraws, v \in VariationDraws :
          active_users_cnt' =
              ActiveCount(growth_loc.current_users,
                          activity_rate(b, sim_month, sim_weekday, v))
    /\ growth_loc' = [growth_loc EXCEPT !.left = new_users]
    /\ Goto(GrowthJob, "add_users")
    /\ UNCHANGED << store_vars, acc_vars, clock_vars, hist_vars, main_pc, job_outcome,
                    batch_size, faults, ticks, queue, call, ext_vars >>

\* self.new_users += self.economy.calculate_daily_user_growth(...): the sum is stored;
\* then the left operand of `self.new_devs += ...` is loaded
GrowthAddUsers ==
    /\ job_pc[GrowthJob] = "add_users"
    /\ \E f \in RandomFactorDraws :
          LET delta == calculate_daily_user_growth(growth_loc.current_users,
                                                   growth_loc.current_games, sim_month, f)
          IN  /\ new_users' = growth_loc.left + delta
              /\ added' = [added EXCEPT !["users"] = @ + delta]
    /\ growth_loc' = [growth_loc EXCEPT !.left = new_devs]
    /\ Goto(GrowthJob, "add_devs")
    /\ UNCHANGED << store_vars, new_devs, new_games, clock_vars, emitted, main_pc,
                    job_outcome, active_users_cnt, batch_size, faults, ticks, queue, call, ext_vars >>

\* self.new_devs += self.economy.calculate_daily_dev_growth(...); game_growth is
\* computed and the left operand of `self.new_games += ...` is loaded
GrowthAddDevs ==
    /\ job_pc[GrowthJob] = "add_devs"
    /\ \E z \in GaussDraws :
          LET delta == calculate_daily_dev_growth(growth_loc.current_devs,
                                                  growth_loc.current_users, z)
          IN  /\ new_devs' = growth_loc.left + delta
              /\ added' = [added EXCEPT !["developers"] = @ + delta]
    /\ growth_loc' = [growth_loc EXCEPT !.left = new_games]
    /\ Goto(GrowthJob, "add_games")
    /\ UNCHANGED << store_vars, new_users, new_games, clock_vars, emitted, main_pc,
                    job_outcome, active_users_cnt, batch_size, faults, ticks, queue, call, ext_vars >>

\* developer_repo.get_developer_count() / 175
GamesPerDeveloperDen == 175

game_cap(developer_count) == (developer_count * Unit) \div GamesPerDeveloperDen

\* the games accumulator grows by one game a day whatever the developers are
GrowthAddGamesUncapped ==
    /\ job_pc[GrowthJob] = "add_games"
    /\ new_games' = growth_loc.left + Unit
    /\ added' = [added EXCEPT !["games"] = @ + Unit]
    /\ Return(GrowthJob)
    /\ UNCHANGED << store_vars, new_users, new_devs, clock_vars, emitted,
                    active_users_cnt, growth_loc, batch_size, faults, ticks, queue, call, ext_vars >>

\* self.new_games += min(game_growth, developer_repo.get_developer_count() / 175)
GrowthAddGames ==
    /\ job_pc[GrowthJob] = "add_games"
    /\ \E t \in TrendDraws, z \in GaussDraws :
          LET game_growth == calculate_daily_game_growth(growth_loc.current_devs,
                                 growth_loc.current_games, active_users_cnt, t, z)
              delta == Min(game_growth, game_cap(get_developer_count))
          IN  /\ new_games' = growth_loc.left + delta
              /\ added' = [added EXCEPT !["games"] = @ + delta]
    /\ Return(GrowthJob)
    /\ UNCHANGED << store_vars, new_users, new_devs, clock_vars, emitted,
                    active_users_cnt, growth_loc, batch_size, faults, ticks, queue, call, ext_vars >>

----------------------------------------------------------------------------
(* generate_users_batch, generate_developers_batch, generate_games_batch   *)

SetAccumulator(kind, value) ==
    /\ new_users' = IF kind = "users" THEN value ELSE new_users
    /\ new_devs'  = IF kind = "developers" THEN value ELSE new_devs
    /\ new_games' = IF kind = "games" THEN value ELSE new_games

\* `if self.new_users >= 5:` ... `return []`
EmitCheck(kind) ==
    /\ Start(EmitJob(kind))
    /\ IF Accumulator(kind) >= Threshold(kind) * Unit
       THEN /\ Goto(EmitJob(kind), "batch")
            /\ UNCHANGED << main_pc, job_outcome >>
       ELSE Return(EmitJob(kind))
    /\ UNCHANGED << store_vars, acc_vars, clock_vars, hist_vars, active_users_cnt,
                    growth_loc, batch_size, faults, ticks, call, ext_vars >>

\* batch_size = int(self.new_users // 5)
BatchSize(kind, carry) == carry \div (Threshold(kind) * Unit)

EmitBatch(kind) ==
    /\ job_pc[EmitJob(kind)] = "batch"
    /\ batch_size' = [batch_size EXCEPT ![kind] = BatchSize(kind, Accumulator(kind))]
    /\ emitted' = [emitted EXCEPT ![kind] = @ + BatchSize(kind, Accumulator(kind))]
    /\ Goto(EmitJob(kind), "remainder")
    /\ UNCHANGED << store_vars, acc_vars, clock_vars, added, main_pc, job_outcome,
                    active_users_cnt, growth_loc, faults, ticks, queue, call, ext_vars >>

\* self.new_users %= 1
Remainder(kind, carry) == carry % (Modulus(kind) * Unit)

EmitRemainder(kind) ==
    /\ job_pc[EmitJob(kind)] = "remainder"
    /\ SetAccumulator(kind, Remainder(kind, Accumulator(kind)))
    /\ Goto(EmitJob(kind), "insert")
    /\ UNCHANGED << store_vars, clock_vars, hist_vars, main_pc, job_outcome,
                    active_users_cnt, growth_loc, batch_size, faults, ticks, queue, call, ext_vars >>

\* the rows a batch of `count` records adds to its table.  The batch is one
\* transaction: a failed statement aborts it.  create_game without a developer
\* in the Store falls back to an id no developer has, which the foreign key of
\* games.developer_id rejects.
Inserted(kind, count) ==
    IF kind = "games" /\ developers = 0 THEN 0 ELSE count

\* a failed insert that puts the drained batch back into the accumulator
AfterFailedInsertRollback(kind) ==
    /\ UNCHANGED store_vars
    /\ SetAccumulator(kind, Accumulator(kind) + batch_size[kind] * Threshold(kind) * Unit)
    /\ batch_size' = [batch_size EXCEPT ![kind] = 0]

\* What a failed create or insert leaves: the accumulator is not touched again
\* and the batch is dropped with the locals of the job.
AfterFailedInsert(kind) ==
    /\ UNCHANGED << store_vars, acc_vars >>
    /\ batch_size' = [batch_size EXCEPT ![kind] = 0]

\* users = self.generator.create_users_batch(batch_size, sim_date);
\* user_repo.insert_users_batch(users); return users.
\* The repository catches a failure of the insert and the job returns; a failure
\* while the records are created (the generator reads the Store for ids) leaves
\* the job as an exception.
EmitInsert(kind) ==
    /\ job_pc[EmitJob(kind)] = "insert"
    /\ \/ /\ users_recent' = users_recent
                 + (IF kind = "users" THEN Inserted(kind, batch_size[kind]) ELSE 0)
          /\ developers' = developers
                 + (IF kind = "developers" THEN Inserted(kind, batch_size[kind]) ELSE 0)
          /\ games' = games
                 + (IF kind = "games" THEN Inserted(kind, batch_size[kind]) ELSE 0)
          /\ batch_size' = [batch_size EXCEPT ![kind] = 0]
          /\ UNCHANGED << users_old, acc_vars, faults >>
          /\ Return(EmitJob(kind))
       \/ /\ StoreFails
          /\ AfterFailedInsert(kind)
          /\ Return(EmitJob(kind))
       \/ /\ StoreFails
          /\ AfterFailedInsert(kind)
          /\ Raise(EmitJob(kind))
    /\ UNCHANGED << clock_vars, hist_vars, active_users_cnt, growth_loc, ticks, queue, call, ext_vars >>

----------------------------------------------------------------------------
(* update_active_users, delete_old_users, add_transaction, print_statistics *)

\* active_ids: all ids when active_users_cnt exceeds their number, else
\* random.sample(all_user_ids, self.active_users_cnt)
SampleSize(id_count, active) == IF active > id_count THEN id_count ELSE active

\* Every sampled row gets last_active = the current simulated datetime; `refreshed`
\* is how many of the sampled rows were old ones.
UpdateActiveUsers ==
    /\ Start("update_active_users")
    /\ IF get_user_count = 0
       THEN UNCHANGED store_vars
       ELSE LET k == SampleSize(get_user_count, active_users_cnt)
            IN  \E refreshed \in Max(0, k - users_recent) .. Min(k, users_old) :
                   /\ users_old' = users_old - refreshed
                   /\ users_recent' = users_recent + refreshed
                   /\ UNCHANGED << developers, games >>
    /\ Return("update_active_users")
    /\ UNCHANGED << acc_vars, clock_vars, hist_vars, active_users_cnt, growth_loc,
                    batch_size, faults, ticks, call, ext_vars >>

\* user_repo.delete_old_users(border_date): DELETE FROM users WHERE last_active < border;
\* an error is caught in the repository and 0 is returned
DeleteOldUsers ==
    /\ Start("delete_old_users")
    /\ \/ /\ users_old' = 0
          /\ UNCHANGED << users_recent, developers, games, faults >>
       \/ /\ StoreFails
          /\ UNCHANGED store_vars
    /\ Return("delete_old_users")
    /\ UNCHANGED << acc_vars, clock_vars, hist_vars, active_users_cnt, growth_loc,
                    batch_size, ticks, call, ext_vars >>

\* self.generator.add_transaction(...): DataGenerator defines no add_transaction,
\* so the call raises AttributeError
AddTransaction ==
    /\ Start("add_transaction")
    /\ Raise("add_transaction")
    /\ UNCHANGED << store_vars, acc_vars, clock_vars, hist_vars, active_users_cnt,
                    growth_loc, batch_size, faults, ticks, call, ext_vars >>

\* print_statistics reads the three counts and active_users_cnt and prints
\* print_statistics that keeps the peak it computes in active_users_cnt
PrintStatisticsStoresPeak ==
    /\ Start("print_stats")
    /\ Return("print_stats")
    /\ active_users_cnt' = (active_users_cnt * 12) \div 10
    /\ UNCHANGED << store_vars, acc_vars, clock_vars, hist_vars,
                    growth_loc, batch_size, faults, ticks, call, ext_vars >>

PrintStatistics ==
    /\ Start("print_stats")
    /\ Return("print_stats")
    /\ UNCHANGED << store_vars, acc_vars, clock_vars, hist_vars, active_users_cnt,
                    growth_loc, batch_size, faults, ticks, call, ext_vars >>

----------------------------------------------------------------------------
(* run_scheduler                                                           *)

Due(job, day) == day % Interval(job) = 0

\* the next fire time of the job's IntervalTrigger after `day`
NextFireTime(job, day) == ((day \div Interval(job)) + 1) * Interval(job)

\* the order of add_job in run_scheduler, and other orders in which the worker
\* threads may come to run the jobs of one wake-up
RunOrders ==
    { << "calculate_daily_growth", "generate_users", "generate_developers",
         "generate_games", "update_active_users", "delete_old_users",
         "add_transaction", "print_stats" >>,
      << "generate_users", "generate_developers", "generate_games",
         "calculate_daily_growth", "delete_old_users", "print_stats",
         "update_active_users", "add_transaction" >> }

\* The scheduler wakes at a fire time of one of its jobs and submits every job
\* that is due at that minute; the simulated day is the real minutes elapsed.
\* Fire times that passed while the process did not run are missed
\* (misfire_grace_time = 1 s, coalesce), and a job whose previous run has not
\* returned is skipped (max_instances = 1): the defaults of add_job.
Fire ==
    /\ main_pc = "scheduling"
    /\ ticks < MaxTicks
    /\ queue = << >>
    /\ \E j \in Jobs :
          /\ NextFireTime(j, sim_day) <= MaxDay
          /\ sim_day' = NextFireTime(j, sim_day)
    /\ ticks' = ticks + 1
    /\ \E order \in RunOrders :
          queue' = SelectSeq(order, LAMBDA j : Due(j, sim_day') /\ job_pc[j] = "idle")
    /\ job_pc' = [j \in Jobs |->
                    IF Due(j, sim_day') /\ job_pc[j] = "idle" THEN "due" ELSE job_pc[j]]
    /\ UNCHANGED << store_vars, acc_vars, start_month, start_weekday, hist_vars, main_pc,
                    job_outcome, active_users_cnt, growth_loc, batch_size, faults, call, ext_vars >>

Next ==
    \/ Fire
    \/ GrowthCountUsers
    \/ GrowthCountGames
    \/ GrowthCountDevs
    \/ GrowthActivity
    \/ GrowthAddUsers
    \/ GrowthAddDevs
    \/ GrowthAddGames
    \/ \E kind \in Kinds : EmitCheck(kind)
    \/ \E kind \in Kinds : EmitBatch(kind)
    \/ \E kind \in Kinds : EmitRemainder(kind)
    \/ \E kind \in Kinds : EmitInsert(kind)
    \/ UpdateActiveUsers
    \/ DeleteOldUsers
    \/ AddTransaction
    \/ PrintStatistics

Spec == InitScheduler /\ [][Next]_vars

----------------------------------------------------------------------------
(* EconomicSimulator called on its own                                      *)

\* the arguments a call of the growth functions is given: counts the Store can
\* hold, on both sides of every branch of the three functions
UserCounts == {0, 1, 20, 120, 1000, 1001, 10000, 10001, 1000000, 150000000,
               299000000, 300000000, 300400000, 400000000}
GameCounts == {0, 20, 999, 1000, 10000, 50000, 60000}
DevCounts == {0, 10, 175, 5000, 5001, 20000}
Months == {1, 6, 12}

sched_vars == << users_old, users_recent, developers, games,
                 active_users_cnt, new_users, new_devs, new_games,
                 sim_day, start_month, start_weekday, main_pc, ticks,
                 job_pc, job_outcome, queue, growth_loc, batch_size, added, emitted,
                 faults, ext_vars >>

\* an EconomicSimulator and the arguments of one call; the scheduler is not started
InitGrowth ==
    /\ users_old = 0
    /\ users_recent = 0
    /\ developers = 0
    /\ games = 0
    /\ start_month = 1
    /\ start_weekday = 0
    /\ sim_day = 0
    /\ active_users_cnt = 0
    /\ new_users = 0
    /\ new_devs = 0
    /\ new_games = 0
    /\ main_pc = "not_started"
    /\ ticks = 0
    /\ job_pc = [j \in Jobs |-> "idle"]
    /\ job_outcome = [j \in Jobs |-> "none"]
    /\ queue = << >>
    /\ growth_loc = [current_users |-> 0, current_games |-> 0, current_devs |-> 0, left |-> 0]
    /\ batch_size = [k \in Kinds |-> 0]
    /\ added = [k \in Kinds |-> 0]
    /\ emitted = [k \in Kinds |-> 0]
    /\ faults = 0
    /\ InitExt
    /\ \E u \in UserCounts, g \in GameCounts, d \in DevCounts, m \in Months :
          call = [NoCall EXCEPT !.current_users = u, !.current_games = g,
                                !.current_devs = d, !.month = m]

CallUserGrowth ==
    /\ \E f \in RandomFactorDraws :
          call' = [call EXCEPT
                     !.fn = "calculate_daily_user_growth",
                     !.result = calculate_daily_user_growth(call.current_users,
                                    call.current_games, call.month, f)]
    /\ UNCHANGED sched_vars

CallDevGrowth ==
    /\ \E z \in GaussDraws :
          call' = [call EXCEPT
                     !.fn = "calculate_daily_dev_growth",
                     !.result = calculate_daily_dev_growth(call.current_devs,
                                    call.current_users, z)]
    /\ UNCHANGED sched_vars

CallGameGrowth ==
    /\ \E t \in TrendDraws, z \in GaussDraws :
          call' = [call EXCEPT
                     !.fn = "calculate_daily_game_growth",
                     !.result = calculate_daily_game_growth(call.current_devs,
                                    call.current_games, call.current_users, t, z)]
    /\ UNCHANGED sched_vars

NextGrowth ==
    \/ CallUserGrowth
    \/ CallDevGrowth
    \/ CallGameGrowth

SpecGrowth == InitGrowth /\ [][NextGrowth]_vars

----------------------------------------------------------------------------
(* The activity estimate of calculate_daily_growth called on its own        *)

\* every variable but `call`, while run_scheduler has not been entered
SchedulerNotStarted ==
    /\ users_old = 0
    /\ users_recent = 0
    /\ developers = 0
    /\ games = 0
    /\ start_month = 1
    /\ start_weekday = 0
    /\ sim_day = 0
    /\ active_users_cnt = 0
    /\ new_users = 0
    /\ new_devs = 0
    /\ new_games = 0
    /\ main_pc = "not_started"
    /\ ticks = 0
    /\ job_pc = [j \in Jobs |-> "idle"]
    /\ job_outcome = [j \in Jobs |-> "none"]
    /\ queue = << >>
    /\ growth_loc = [current_users |-> 0, current_games |-> 0, current_devs |-> 0, left |-> 0]
    /\ batch_size = [k \in Kinds |-> 0]
    /\ added = [k \in Kinds |-> 0]
    /\ emitted = [k \in Kinds |-> 0]
    /\ faults = 0
    /\ InitExt

\* get_user_count() results, get_simulated_datetime().month and .weekday()
ActivityUserCounts == {0, 1, 3, 4, 20, 120, 9999, 10000, 200000}
AllMonths == 1 .. 12
Weekdays == 0 .. 6

\* random.uniform(0.1, 0.25) and random.uniform(0.9, 1.1), in hundredths
ActivityBaseDraws == {10, 17, 25}
ActivityVariationDraws == {90, 100, 110}

InitActivity ==
    /\ SchedulerNotStarted
    /\ \E u \in ActivityUserCounts, m \in AllMonths, w \in Weekdays :
          call = [fn |-> "none", current_users |-> u, month |-> m, weekday |-> w,
                  rate |-> 0, result |-> 0]

\* lines 257-265: the rate, then self.active_users_cnt = int(current_users * activity_rate)
CallActivity ==
    /\ \E b \in ActivityBaseDraws, v \in ActivityVariationDraws :
          LET rate == activity_rate(b, call.month, call.weekday, v)
          IN  call' = [call EXCEPT !.fn = "activity",
                                   !.rate = rate,
                                   !.result = ActiveCount(call.current_users, rate)]
    /\ UNCHANGED sched_vars

NextActivity == CallActivity

SpecActivity == InitActivity /\ [][NextActivity]_vars

----------------------------------------------------------------------------
(* TimeSimulator called on its own                                          *)

\* real_minutes = real_elapsed.total_seconds() / 60
SecondsPerMinute == 60

\* a clock that reads timedelta.seconds, which starts again every 24 hours
SimDayOfSeconds(elapsed) == (elapsed % 86400) \div SecondsPerMinute

\* get_current_sim_day for a wall clock read `elapsed` seconds after
\* real_start_time: int(real_minutes)
get_current_sim_day(elapsed) == elapsed \div SecondsPerMinute

\* get_simulated_date: sim_start_date + timedelta(days=days); dates are counted
\* in days
get_simulated_date(sim_start_date, elapsed) ==
    sim_start_date + get_current_sim_day(elapsed)

\* wall clock reads, in seconds after the simulation started
ClockReads == {0, 1, 59, 60, 61, 119, 120, 1800, 3599, 3600, 3601,
               86399, 86400, 86401, 90000, 172800}

\* sim_start_date as a day number
StartOrdinals == {0, 738000}

InitClock ==
    /\ SchedulerNotStarted
    /\ \E t1 \in ClockReads, t2 \in ClockReads, d \in StartOrdinals :
          call = [fn |-> "none", sim_start_date |-> d, t1 |-> t1, t2 |-> t2,
                  date1 |-> d, date2 |-> d]

\* two calls of get_simulated_date, at the wall clock reads t1 and t2
ReadClock ==
    /\ call' = [call EXCEPT !.fn = "get_simulated_date",
                            !.date1 = get_simulated_date(call.sim_start_date, call.t1),
                            !.date2 = get_simulated_date(call.sim_start_date, call.t2)]
    /\ UNCHANGED sched_vars

NextClock == ReadClock

SpecClock == InitClock /\ [][NextClock]_vars

----------------------------------------------------------------------------
(* update_active_users and delete_old_users, row by row                     *)

\* a simulated date-time, in hours: get_simulated_datetime() puts a random hour
\* of the simulated day (the minute and second drawn are taken as 0)
Stamp(day, hour) == day * 24 + hour

\* hour = random.randint(9, 18)
HourDraws == {9, 18}

get_simulated_datetime(day, hour) == Stamp(day, hour)

\* timedelta(days=730)
RetentionDays == 730

\* border_date = self.time_simulator.get_simulated_datetime() - timedelta(days=730)
border_date(day, hour) == get_simulated_datetime(day, hour) - RetentionDays * 24

\* a row is removed as well when its last_active is the border itself
ExpiredOrEqual(stamp, border) == stamp <= border

\* WHERE last_active < %s
Expired(stamp, border) == stamp < border

\* the users table after DELETE FROM users WHERE last_active < border
Kept(table, border) ==
    [id \in {i \in DOMAIN table : ~Expired(table[i], border)} |-> table[id]]

RECURSIVE SortedSeq(_)
SortedSeq(ids) ==
    IF ids = {} THEN << >>
    ELSE LET least == CHOOSE x \in ids : \A y \in ids : x <= y
         IN  << least >> \o SortedSeq(ids \ {least})

\* SELECT user_id FROM users ORDER BY user_id
get_all_user_ids == SortedSeq(DOMAIN last_active)

\* k draws from the population, any of them possibly drawn again
SamplesWithReplacement(population, k) ==
    IF k = 0 THEN {<< >>}
    ELSE {[i \in 1 .. k |-> population[p[i]]] : p \in [1 .. k -> 1 .. Len(population)]}

\* random.sample(population, k): k positions of the population, no position twice
Samples(population, k) ==
    IF k = 0 THEN {<< >>}
    ELSE {[i \in 1 .. k |-> population[p[i]]] :
             p \in {q \in [1 .. k -> 1 .. Len(population)] :
                       \A i, j \in 1 .. k : i # j => q[i] # q[j]}}

\* lines 311-314: all ids when active_users_cnt exceeds their number, else a sample
ActiveIds(all_user_ids, active) ==
    IF active > Len(all_user_ids) THEN {all_user_ids}
    ELSE Samples(all_user_ids, active)

\* the loop stops at the first id whose update fails
AbortOnFailure(position, length, ok) == IF ok THEN position + 1 ELSE length

\* `for user_id in active_ids:` with `continue` after a failure: the next id
NextPosition(position, length, ok) == position + 1

\* the lock is taken without regard to its holder
LockIgnored(job) == TRUE

\* `with self.db_lock:` of user_repo: no other job is inside a statement
LockFree(job) == \A other \in Jobs \ {job} : job_pc[other] # "locked"

\* wake-ups of the scheduler followed row by row, and the ids of the users
MaxRetentionTicks == 2
MaxUsers == 3

\* the simulated day before the scheduler wakes with both jobs due
RetentionStartDay == 749

\* users tables the Store may hold then: rows last active before the border of
\* day 750, on the day of that border, before the border of day 780, and lately
InitialTables ==
    { << >>,
      (1 :> Stamp(10, 12)) @@ (2 :> Stamp(20, 9)) @@ (3 :> Stamp(745, 10)),
      (1 :> Stamp(20, 13)) @@ (2 :> Stamp(40, 12)) @@ (3 :> Stamp(748, 18)),
      (1 :> Stamp(748, 9)) @@ (3 :> Stamp(10, 12)) }

retention_frame == << users_old, users_recent, developers, games, active_users_cnt,
                      new_users, new_devs, new_games, start_month, start_weekday,
                      queue, growth_loc, batch_size, added, emitted, call,
                      fired, in_flight, side_vars >>

\* run_scheduler has started its jobs; active_users_cnt is what the last
\* calculate_daily_growth left
InitRetention ==
    /\ users_old = 0
    /\ users_recent = 0
    /\ developers = 0
    /\ games = 0
    /\ start_month = 1
    /\ start_weekday = 0
    /\ sim_day = RetentionStartDay
    /\ active_users_cnt \in 0 .. MaxUsers + 1
    /\ new_users = 0
    /\ new_devs = 0
    /\ new_games = 0
    /\ main_pc = "scheduling"
    /\ ticks = 0
    /\ job_pc = [j \in Jobs |-> "idle"]
    /\ job_outcome = [j \in Jobs |-> "none"]
    /\ queue = << >>
    /\ growth_loc = [current_users |-> 0, current_games |-> 0, current_devs |-> 0, left |-> 0]
    /\ batch_size = [k \in Kinds |-> 0]
    /\ added = [k \in Kinds |-> 0]
    /\ emitted = [k \in Kinds |-> 0]
    /\ faults = 0
    /\ call = NoCall
    /\ last_active \in InitialTables
    /\ update_loc = NoUpdate
    /\ delete_loc = NoDelete
    /\ store_log = "none"
    /\ fired = [j \in Jobs |-> 0]
    /\ in_flight = [j \in Jobs |-> 0]
    /\ InitSide

RetentionJobs == {"update_active_users", "delete_old_users"}

\* The scheduler wakes at the next minute and submits the two jobs that are due
\* and not running.  While active_users_cnt is 0 the wake-ups at which only
\* update_active_users is due change no row (it samples no id): they are taken
\* together, up to the next fire time of delete_old_users.
RetentionFire ==
    /\ ticks < MaxRetentionTicks
    /\ \A j \in RetentionJobs : job_pc[j] # "due"
    /\ \/ sim_day' = sim_day + 1
       \/ /\ active_users_cnt = 0
          /\ job_pc["update_active_users"] = "idle"
          /\ sim_day' = NextFireTime("delete_old_users", sim_day)
    /\ ticks' = ticks + 1
    /\ job_pc' = [j \in Jobs |->
                    IF j \in RetentionJobs /\ Due(j, sim_day') /\ job_pc[j] = "idle"
                    THEN "due" ELSE job_pc[j]]
    /\ UNCHANGED << retention_frame, last_active, update_loc, delete_loc, store_log,
                    main_pc, job_outcome, faults >>

UPD == "update_active_users"
DEL == "delete_old_users"

\* lines 307-316: the ids are read, the active ids chosen, and the simulated
\* date-time read once for the whole run.  An empty list (also what a failed
\* read gives) ends the run.
UpdateSampleIds ==
    /\ job_pc[UPD] = "due"
    /\ \/ /\ get_all_user_ids # << >>
          /\ \E ids \in ActiveIds(get_all_user_ids, active_users_cnt), h \in HourDraws :
                update_loc' = [all_user_ids |-> get_all_user_ids,
                               active_ids |-> ids,
                               position |-> 0,
                               current_time |-> get_simulated_datetime(sim_day, h),
                               success_count |-> 0,
                               tried |-> 0]
          /\ Goto(UPD, "loop")
          /\ UNCHANGED << main_pc, job_outcome, faults >>
       \/ /\ get_all_user_ids = << >>
          /\ update_loc' = NoUpdate
          /\ Return(UPD)
          /\ UNCHANGED faults
       \/ /\ StoreFails
          /\ update_loc' = NoUpdate
          /\ Return(UPD)
    /\ UNCHANGED << retention_frame, last_active, delete_loc, store_log, sim_day, ticks >>

\* update_user_active enters `with self.db_lock:` for the next id
UpdateAcquire ==
    /\ job_pc[UPD] = "loop"
    /\ update_loc.position < Len(update_loc.active_ids)
    /\ LockFree(UPD)
    /\ Goto(UPD, "locked")
    /\ UNCHANGED << retention_frame, last_active, update_loc, delete_loc, store_log,
                    sim_day, ticks, main_pc, job_outcome, faults >>

\* UPDATE users SET last_active = %s WHERE user_id = %s, and the lock is left.
\* The statement succeeds whether or not the row is still there; a failure is
\* caught in the repository, which returns False.
UpdateOne ==
    /\ job_pc[UPD] = "locked"
    /\ LET user_id == update_loc.active_ids[update_loc.position + 1]
           length == Len(update_loc.active_ids)
       IN  \/ /\ last_active' =
                     IF user_id \in DOMAIN last_active
                     THEN [last_active EXCEPT ![user_id] = update_loc.current_time]
                     ELSE last_active
              /\ store_log' = "update"
              /\ update_loc' = [update_loc EXCEPT
                                  !.position = NextPosition(@, length, TRUE),
                                  !.tried = @ + 1,
                                  !.success_count = @ + 1]
              /\ UNCHANGED faults
           \/ /\ StoreFails
              /\ update_loc' = [update_loc EXCEPT
                                  !.position = NextPosition(@, length, FALSE),
                                  !.tried = @ + 1]
              /\ UNCHANGED << last_active, store_log >>
    /\ Goto(UPD, "loop")
    /\ UNCHANGED << retention_frame, delete_loc, sim_day, ticks, main_pc, job_outcome >>

\* the loop is over: success_count / len(active_ids) is printed
UpdateReport ==
    /\ job_pc[UPD] = "loop"
    /\ update_loc.position >= Len(update_loc.active_ids)
    /\ Return(UPD)
    /\ UNCHANGED << retention_frame, last_active, update_loc, delete_loc, store_log,
                    sim_day, ticks, faults >>

\* border_date = get_simulated_datetime() - timedelta(days=730)
DeleteBorder ==
    /\ job_pc[DEL] = "due"
    /\ \E h \in HourDraws :
          delete_loc' = [border_date |-> border_date(sim_day, h), delete_cnt |-> 0]
    /\ Goto(DEL, "border")
    /\ UNCHANGED << retention_frame, last_active, update_loc, store_log,
                    sim_day, ticks, main_pc, job_outcome, faults >>

\* user_repo.delete_old_users enters `with self.db_lock:`
DeleteAcquire ==
    /\ job_pc[DEL] = "border"
    /\ LockFree(DEL)
    /\ Goto(DEL, "locked")
    /\ UNCHANGED << retention_frame, last_active, update_loc, delete_loc, store_log,
                    sim_day, ticks, main_pc, job_outcome, faults >>

\* DELETE FROM users WHERE last_active < border_date; cursor.rowcount is returned
\* and printed.  A failure is caught in the repository, which returns 0.
DeleteStatement ==
    /\ job_pc[DEL] = "locked"
    /\ \/ /\ last_active' = Kept(last_active, delete_loc.border_date)
          /\ delete_loc' = [delete_loc EXCEPT !.delete_cnt =
                               Cardinality(DOMAIN last_active)
                                   - Cardinality(DOMAIN Kept(last_active, delete_loc.border_date))]
          /\ store_log' = "delete"
          /\ UNCHANGED faults
       \/ /\ StoreFails
          /\ delete_loc' = [delete_loc EXCEPT !.delete_cnt = 0]
          /\ store_log' = "failed delete"
          /\ UNCHANGED last_active
    /\ Return(DEL)
    /\ UNCHANGED << retention_frame, update_loc, sim_day, ticks >>

NextRetention ==
    \/ RetentionFire
    \/ UpdateSampleIds
    \/ UpdateAcquire
    \/ UpdateOne
    \/ UpdateReport
    \/ DeleteBorder
    \/ DeleteAcquire
    \/ DeleteStatement

SpecRetention == InitRetention /\ [][NextRetention]_vars

----------------------------------------------------------------------------
(* The drain of an accumulator called on its own                           *)

\* accumulated growth of up to 12.00, in hundredths
MaxCarry == 1200

InitDrain ==
    /\ SchedulerNotStarted
    /\ \E k \in Kinds, c \in 0 .. MaxCarry :
          call = [fn |-> "none", kind |-> k, carry |-> c, batch_size |-> 0, left |-> c]

\* generate_users_batch, generate_developers_batch, generate_games_batch up to
\* the creation of the batch: `if self.new_x >= T:` then
\* `batch_size = int(self.new_x // T)` and `self.new_x %= 1`; else nothing
Drain ==
    /\ call.fn = "none"
    /\ IF call.carry >= Threshold(call.kind) * Unit
       THEN call' = [call EXCEPT !.fn = "drain",
                                 !.batch_size = BatchSize(call.kind, call.carry),
                                 !.left = Remainder(call.kind, call.carry)]
       ELSE call' = [call EXCEPT !.fn = "drain", !.batch_size = 0]
    /\ UNCHANGED sched_vars

NextDrain == Drain

SpecDrain == InitDrain /\ [][NextDrain]_vars

----------------------------------------------------------------------------
(* run_scheduler: the fire times of the jobs and the runs they start        *)
(* Here sim_day is the number of minutes since scheduler.start(), fired[j]  *)
(* the number of runs of job j the scheduler has started and in_flight[j]   *)
(* the number of calls of j's function that have not returned.              *)

\* minutes of scheduling, enough for two fire times of delete_old_users
MaxMinutes == 60

\* fire times that start no run, over all jobs
MaxSkips == 1

cadence_frame == << users_old, users_recent, developers, games, active_users_cnt,
                    new_users, new_devs, new_games, start_month, start_weekday,
                    ticks, job_pc, job_outcome, queue, growth_loc, batch_size,
                    added, emitted, faults, call, last_active, update_loc,
                    delete_loc, store_log, side_vars >>

InitCadence ==
    /\ SchedulerNotStarted
    /\ call = NoCall

\* fire times of the job up to `minute` that started no run
Skipped(job, minute, runs) == (minute \div Interval(job)) - runs[job]

RECURSIVE SkippedIn(_, _, _)
SkippedIn(jobs, minute, runs) ==
    IF jobs = {} THEN 0
    ELSE LET j == CHOOSE x \in jobs : TRUE
         IN  Skipped(j, minute, runs) + SkippedIn(jobs \ {j}, minute, runs)

\* line 404: run_scheduler calls self.calculate_daily_growth() itself
FirstGrowthCall ==
    /\ main_pc = "not_started"
    /\ main_pc' = "first_growth"
    /\ in_flight' = [in_flight EXCEPT !["calculate_daily_growth"] = @ + 1]
    /\ UNCHANGED << cadence_frame, sim_day, fired >>

\* lines 405-453: the call has returned; the jobs are added, the scheduler starts
StartScheduler ==
    /\ main_pc = "first_growth"
    /\ main_pc' = "scheduling"
    /\ in_flight' = [in_flight EXCEPT !["calculate_daily_growth"] = @ - 1]
    /\ UNCHANGED << cadence_frame, sim_day, fired >>

\* a job added without max_instances may have one run at a time: the scheduler
\* starts a run at a fire time only when no run of the job is in flight
SubmitAlways(job) == TRUE

CanSubmit(job) == in_flight[job] = 0

\* the scheduler wakes at the next minute: every job with a fire time then
\* gets a run, unless its last run has not returned
Wake ==
    /\ main_pc = "scheduling"
    /\ sim_day < MaxMinutes
    /\ sim_day' = sim_day + 1
    /\ fired' = [j \in Jobs |->
                    IF Due(j, sim_day') /\ CanSubmit(j) THEN fired[j] + 1 ELSE fired[j]]
    /\ in_flight' = [j \in Jobs |->
                    IF Due(j, sim_day') /\ CanSubmit(j) THEN in_flight[j] + 1
                    ELSE in_flight[j]]
    /\ SkippedIn(Jobs, sim_day', fired') <= MaxSkips
    /\ UNCHANGED << cadence_frame, main_pc >>

\* a run of the job returns (or raises into the executor, which logs it)
Finish(job) ==
    /\ main_pc \in {"scheduling", "shutdown"}
    /\ in_flight[job] > 0
    /\ in_flight' = [in_flight EXCEPT ![job] = @ - 1]
    /\ UNCHANGED << cadence_frame, main_pc, sim_day, fired >>

\* lines 455-459: KeyboardInterrupt in the sleep loop, then scheduler.shutdown()
Interrupt ==
    /\ main_pc = "scheduling"
    /\ main_pc' = "shutdown"
    /\ UNCHANGED << cadence_frame, sim_day, fired, in_flight >>

\* lines 460-461: shutdown() has waited for the runs in flight;
\* run_scheduler calls self.print_statistics() itself
FinalStatistics ==
    /\ main_pc = "shutdown"
    /\ \A j \in Jobs : in_flight[j] = 0
    /\ main_pc' = "final_statistics"
    /\ in_flight' = [in_flight EXCEPT !["print_stats"] = @ + 1]
    /\ UNCHANGED << cadence_frame, sim_day, fired >>

Stopped ==
    /\ main_pc = "final_statistics"
    /\ main_pc' = "stopped"
    /\ in_flight' = [in_flight EXCEPT !["print_stats"] = @ - 1]
    /\ UNCHANGED << cadence_frame, sim_day, fired >>

NextCadence ==
    \/ FirstGrowthCall
    \/ StartScheduler
    \/ Wake
    \/ \E j \in Jobs : Finish(j)
    \/ Interrupt
    \/ FinalStatistics
    \/ Stopped

SpecCadence == InitCadence /\ [][NextCadence]_vars

----------------------------------------------------------------------------
(* DataGenerator: the ids it puts on the records it creates                 *)

\* ids run from 0 to MaxId; a batch has up to MaxBatch records
MaxId == 3
MaxBatch == 2

\* restarts of the process (counted in ticks)
MaxRestarts == 1

\* Store failures the factory and its batches may meet
MaxFactoryFaults == 2

SetMax(ids) == CHOOSE x \in ids : \A y \in ids : y <= x

\* _get_next_user_id, _get_next_developer_id: max(ids) + 1 if ids else 0
NextIdAfterMax(ids) == IF ids = {} THEN 0 ELSE SetMax(ids) + 1

\* _get_next_game_id: game_repo.get_game_count()
NextIdByCount(ids) == Cardinality(ids)

\* DataGenerator.__init__, lines 137-139
DerivedCounter(kind, ids) ==
    IF kind = "games" THEN NextIdByCount(ids) ELSE NextIdAfterMax(ids)

factory_frame == << users_old, users_recent, developers, games, active_users_cnt,
                    new_users, new_devs, new_games, sim_day, start_month, start_weekday,
                    main_pc, job_pc, job_outcome, queue, growth_loc, batch_size,
                    added, emitted, call, last_active, update_loc, delete_loc,
                    store_log, fired, in_flight, legacy_vars, checked_out >>

\* a Store seeded by an earlier process, and the DataGenerator constructed on it
InitialIdStore == [users |-> {0, 1}, developers |-> {0, 1}, games |-> {0, 1}]

InitFactory ==
    /\ users_old = 0
    /\ users_recent = 0
    /\ developers = 0
    /\ games = 0
    /\ start_month = 1
    /\ start_weekday = 0
    /\ sim_day = 0
    /\ active_users_cnt = 0
    /\ new_users = 0
    /\ new_devs = 0
    /\ new_games = 0
    /\ main_pc = "scheduling"
    /\ ticks = 0
    /\ job_pc = [j \in Jobs |-> "idle"]
    /\ job_outcome = [j \in Jobs |-> "none"]
    /\ queue = << >>
    /\ growth_loc = [current_users |-> 0, current_games |-> 0, current_devs |-> 0, left |-> 0]
    /\ batch_size = [k \in Kinds |-> 0]
    /\ added = [k \in Kinds |-> 0]
    /\ emitted = [k \in Kinds |-> 0]
    /\ faults = 0
    /\ call = NoCall
    /\ last_active = << >>
    /\ update_loc = NoUpdate
    /\ delete_loc = NoDelete
    /\ store_log = "none"
    /\ fired = [j \in Jobs |-> 0]
    /\ in_flight = [j \in Jobs |-> 0]
    /\ store_ids = InitialIdStore
    /\ id_counter = [k \in Kinds |-> DerivedCounter(k, InitialIdStore[k])]
    /\ assigned = [k \in Kinds |-> {}]
    /\ pending = NoBatch
    /\ InitRest

FactoryFails ==
    /\ faults < MaxFactoryFaults
    /\ faults' = faults + 1

\* create_users_batch(count) and create_developers_batch(count): each record
\* takes the counter as its id, and the counter is incremented
CreateBatch(kind) ==
    /\ kind \in {"users", "developers"}
    /\ pending = NoBatch
    /\ \E count \in 1 .. MaxBatch :
          /\ id_counter[kind] + count - 1 <= MaxId
          /\ pending' = [kind |-> kind,
                         ids |-> id_counter[kind] .. (id_counter[kind] + count - 1),
                         owner |-> << >>, left |-> 0]
          /\ assigned' = [assigned EXCEPT ![kind] =
                            @ \cup (id_counter[kind] .. (id_counter[kind] + count - 1))]
          /\ id_counter' = [id_counter EXCEPT ![kind] = @ + count]
    /\ UNCHANGED << factory_frame, ticks, store_ids, faults >>

\* generate_games_batch with batch_size >= 1.  new_games has been raised only
\* by a recomputation that counted a developer (line 286), and no developer is
\* ever deleted: the developers table is not empty.
StartGames ==
    /\ pending = NoBatch
    /\ store_ids["developers"] # {}
    /\ \E count \in 1 .. MaxBatch :
          /\ id_counter["games"] + count - 1 <= MaxId
          /\ pending' = [kind |-> "games", ids |-> {}, owner |-> << >>, left |-> count]
    /\ UNCHANGED << factory_frame, ticks, store_ids, id_counter, assigned, faults >>

\* create_game, lines 462-463: what stands in when no developer id was read
FallbackDeveloper ==
    IF id_counter["developers"] > 0 THEN id_counter["developers"] - 1 ELSE 0

\* create_game(sim_date): developer_id is -1, so a developer is drawn from the
\* Store; fetch_one returns None when its query fails, and create_game then
\* takes the fallback; when get_connection raises, create_game takes 0
CreateGame ==
    /\ pending.kind = "games"
    /\ pending.left > 0
    /\ \E dev \in 0 .. MaxId + 1 :
          /\ \/ dev \in store_ids["developers"] /\ UNCHANGED faults
             \/ store_ids["developers"] = {} /\ dev = FallbackDeveloper /\ UNCHANGED faults
             \/ dev = FallbackDeveloper /\ FactoryFails
             \/ dev = 0 /\ FactoryFails
          /\ pending' = [pending EXCEPT
                            !.ids = @ \cup {id_counter["games"]},
                            !.owner = (id_counter["games"] :> dev) @@ @,
                            !.left = @ - 1]
    /\ assigned' = [assigned EXCEPT !["games"] = @ \cup {id_counter["games"]}]
    /\ id_counter' = [id_counter EXCEPT !["games"] = @ + 1]
    /\ UNCHANGED << factory_frame, ticks, store_ids >>

\* the batch is one transaction with the primary key on the id and, for games,
\* the foreign key on developer_id
Insertable(batch) ==
    /\ batch.ids \cap store_ids[batch.kind] = {}
    /\ batch.kind = "games" =>
          \A g \in batch.ids : batch.owner[g] \in store_ids["developers"]

\* insert_users_batch, insert_developers_batch, insert_games_batch: the rows
\* are added, or a failed statement or commit leaves the table as it was
InsertBatch ==
    /\ pending.kind \in Kinds
    /\ pending.left = 0
    /\ \/ /\ Insertable(pending)
          /\ store_ids' = [store_ids EXCEPT ![pending.kind] = @ \cup pending.ids]
          /\ UNCHANGED faults
       \/ /\ ~Insertable(pending)
          /\ UNCHANGED << store_ids, faults >>
       \/ /\ FactoryFails
          /\ UNCHANGED store_ids
    /\ pending' = NoBatch
    /\ UNCHANGED << factory_frame, ticks, id_counter, assigned >>

\* delete_old_users removes some users
PruneUsers ==
    /\ \E removed \in SUBSET store_ids["users"] :
          /\ removed # {}
          /\ store_ids' = [store_ids EXCEPT !["users"] = @ \ removed]
    /\ UNCHANGED << factory_frame, ticks, id_counter, assigned, pending, faults >>

\* the process ends and is started again: DataGenerator.__init__ derives the
\* counters from the Store; a counter whose query fails is 0 (lines 143-167,
\* and fetch_all and fetch_one, which return [] and None)
Restart ==
    /\ ticks < MaxRestarts
    /\ pending = NoBatch
    /\ \/ /\ id_counter' = [k \in Kinds |-> DerivedCounter(k, store_ids[k])]
          /\ UNCHANGED faults
       \/ /\ FactoryFails
          /\ \E failed \in Kinds :
                id_counter' = [k \in Kinds |->
                                 IF k = failed THEN 0 ELSE DerivedCounter(k, store_ids[k])]
    /\ assigned' = [k \in Kinds |-> {}]
    /\ pending' = NoBatch
    /\ ticks' = ticks + 1
    /\ UNCHANGED << factory_frame, store_ids >>

NextFactory ==
    \/ \E kind \in {"users", "developers"} : CreateBatch(kind)
    \/ StartGames
    \/ CreateGame
    \/ InsertBatch
    \/ PruneUsers
    \/ Restart

SpecFactory == InitFactory /\ [][NextFactory]_vars

----------------------------------------------------------------------------
(* sheduler.py: the file-based generator and its check_and_update_day       *)

\* simulated days and calls of check_and_update_day followed
MaxLegacyDay == 2
MaxLegacyCalls == 3

\* results of calculate_daily_user_growth (max(int(net_growth), 0)), of
\* calculate_daily_dev_growth (1 or 0) and of calculate_daily_game_growth
\* (max(0, int(random.normalvariate(...)))) of sheduler.py
LegacyUserGrowthDraws == {0, 4}
LegacyDevGrowthDraws == {0, 1}
LegacyGameGrowthDraws == {0, 2}

\* market_state after __init__ and _generate_initial_data: 70 developers with
\* 1 to 3 games each on top of the 280 of the dict
LegacyInitialGames == {350, 490}

legacy_frame == << users_old, users_recent, developers, games, active_users_cnt,
                   new_users, new_devs, new_games, start_month, start_weekday,
                   main_pc, job_pc, job_outcome, queue, growth_loc, batch_size,
                   added, faults, last_active, update_loc, delete_loc,
                   store_log, fired, in_flight, factory_vars, checked_out >>

InitLegacy ==
    /\ users_old = 0
    /\ users_recent = 0
    /\ developers = 0
    /\ games = 0
    /\ start_month = 1
    /\ start_weekday = 0
    /\ sim_day = 0
    /\ active_users_cnt = 0
    /\ new_users = 0
    /\ new_devs = 0
    /\ new_games = 0
    /\ main_pc = "scheduling"
    /\ ticks = 0
    /\ job_pc = [j \in Jobs |-> "idle"]
    /\ job_outcome = [j \in Jobs |-> "none"]
    /\ queue = << >>
    /\ growth_loc = [current_users |-> 0, current_games |-> 0, current_devs |-> 0, left |-> 0]
    /\ batch_size = [k \in Kinds |-> 0]
    /\ added = [k \in Kinds |-> 0]
    /\ emitted = [k \in Kinds |-> 0]
    /\ faults = 0
    /\ call = [fn |-> "none", kind |-> "none", day_changed |-> FALSE,
               user_growth |-> 0, dev_growth |-> 0, game_growth |-> 0]
    /\ last_active = << >>
    /\ update_loc = NoUpdate
    /\ delete_loc = NoDelete
    /\ store_log = "none"
    /\ fired = [j \in Jobs |-> 0]
    /\ in_flight = [j \in Jobs |-> 0]
    /\ store_ids = [k \in Kinds |-> {}]
    /\ id_counter = [k \in Kinds |-> 0]
    /\ assigned = [k \in Kinds |-> {}]
    /\ pending = NoBatch
    /\ \E g \in LegacyInitialGames :
          market_state = [total_users |-> 10000, total_developers |-> 70,
                          total_games |-> g, last_update_day |-> -1]
    /\ stats = NoStats
    /\ checked_out = 0

\* get_days_since_start() has advanced: a minute of real time has passed
LegacyDayPasses ==
    /\ sim_day < MaxLegacyDay
    /\ sim_day' = sim_day + 1
    /\ UNCHANGED << legacy_frame, legacy_vars, ticks, emitted, call >>

\* `if current_sim_day < self.market_state['last_update_day']:`
SkipsUpdate(current_sim_day) == current_sim_day < market_state.last_update_day

\* what this kind's job takes from the tuple check_and_update_day returned
OwnGrowth(kind, result) ==
    CASE kind = "users"      -> result.user_growth
      [] kind = "developers" -> result.dev_growth
      [] kind = "games"      -> result.game_growth

\* generate_users_batch, generate_developers_batch, generate_games_batch of
\* sheduler.py: check_and_update_day, then the batch is created and appended
\* to the file of its kind when the day changed and the kind has grown
LegacyBatch(kind) ==
    /\ ticks < MaxLegacyCalls
    /\ ticks' = ticks + 1
    /\ IF SkipsUpdate(sim_day)
       THEN /\ call' = [fn |-> "check_and_update_day", kind |-> kind, day_changed |-> FALSE,
                        user_growth |-> 0, dev_growth |-> 0, game_growth |-> 0]
            /\ UNCHANGED << legacy_vars, emitted >>
       ELSE \E u \in LegacyUserGrowthDraws, d \in LegacyDevGrowthDraws,
               g \in LegacyGameGrowthDraws :
               LET result == [fn |-> "check_and_update_day", kind |-> kind,
                              day_changed |-> TRUE,
                              user_growth |-> u, dev_growth |-> d, game_growth |-> g]
               IN  /\ market_state' =
                         [total_users |-> market_state.total_users + u,
                          total_developers |-> market_state.total_developers + d,
                          total_games |-> market_state.total_games + g,
                          last_update_day |-> sim_day]
                   /\ stats' = [users |-> stats.users + u,
                                developers |-> stats.developers + d,
                                games |-> stats.games + g,
                                daily_stats |-> Append(stats.daily_stats, sim_day)]
                   /\ call' = result
                   /\ emitted' = [emitted EXCEPT ![kind] = @ + OwnGrowth(kind, result)]
    /\ UNCHANGED << legacy_frame, sim_day >>

NextLegacy ==
    \/ LegacyDayPasses
    \/ \E kind \in Kinds : LegacyBatch(kind)

SpecLegacy == InitLegacy /\ [][NextLegacy]_vars

----------------------------------------------------------------------------
(* DatabaseManager: the connections of the pool                             *)

\* SimpleConnectionPool(min_conn, max_conn): max_conn = 10
PoolMax == 10

\* failures of BEGIN, of a statement, of commit or of rollback
MaxPoolFaults == 3

\* the threads that use the Store: the growth job reads counts, the three
\* generate_*_batch jobs read and insert batches
PoolJobs == {GrowthJob} \cup {EmitJob(k) : k \in Kinds}

pool_frame == << users_old, users_recent, developers, games, active_users_cnt,
                 new_users, new_devs, new_games, sim_day, start_month, start_weekday,
                 main_pc, ticks, queue, growth_loc, batch_size,
                 added, emitted, call, last_active, update_loc, delete_loc,
                 store_log, fired, in_flight, factory_vars, legacy_vars >>

InitPool ==
    /\ users_old = 0
    /\ users_recent = 0
    /\ developers = 0
    /\ games = 0
    /\ start_month = 1
    /\ start_weekday = 0
    /\ sim_day = 0
    /\ active_users_cnt = 0
    /\ new_users = 0
    /\ new_devs = 0
    /\ new_games = 0
    /\ main_pc = "scheduling"
    /\ ticks = 0
    /\ job_pc = [j \in Jobs |-> "idle"]
    /\ job_outcome = [j \in Jobs |-> "none"]
    /\ queue = << >>
    /\ growth_loc = [current_users |-> 0, current_games |-> 0, current_devs |-> 0, left |-> 0]
    /\ batch_size = [k \in Kinds |-> 0]
    /\ added = [k \in Kinds |-> 0]
    /\ emitted = [k \in Kinds |-> 0]
    /\ faults = 0
    /\ call = NoCall
    /\ InitExt

PoolFails ==
    /\ faults < MaxPoolFaults
    /\ faults' = faults + 1

\* get_connection: connection_pool.getconn() hands out a connection while
\* fewer than max_conn are out, and raises otherwise
Available == checked_out < PoolMax

\* execute_query, fetch_one, fetch_all: conn = self.get_connection()
QueryStart(job) ==
    /\ job_pc[job] = "idle"
    /\ Available
    /\ checked_out' = checked_out + 1
    /\ Goto(job, "query")
    /\ UNCHANGED << pool_frame, faults, job_outcome >>

\* ... try: execute (and commit); except: (rollback and) log;
\* finally: self.return_connection(conn)
QueryEnd(job) ==
    /\ job_pc[job] = "query"
    /\ \/ /\ UNCHANGED faults
          /\ job_outcome' = [job_outcome EXCEPT ![job] = "returned"]
       \/ /\ PoolFails
          /\ job_outcome' = [job_outcome EXCEPT ![job] = "raised"]
    /\ checked_out' = checked_out - 1
    /\ Goto(job, "idle")
    /\ UNCHANGED pool_frame

\* insert_*_batch: cursor, conn = self.db.execute_with_connection("BEGIN", ()).
\* An insert_*_batch that ends in its `except` logs the error and returns 0
\* ("failed").
\* execute_with_connection takes a connection and executes BEGIN with no
\* try/finally: when BEGIN raises, the connection is not returned, `conn` is
\* not bound in insert_*_batch, and its `except` runs rollback_connection(conn)
\* inside `try: ... except: pass`
BatchBegin(job) ==
    /\ job_pc[job] = "idle"
    /\ Available
    /\ checked_out' = checked_out + 1
    /\ \/ /\ Goto(job, "rows")
          /\ UNCHANGED << faults, job_outcome >>
       \/ /\ PoolFails
          /\ Goto(job, "idle")
          /\ job_outcome' = [job_outcome EXCEPT ![job] = "failed"]
    /\ UNCHANGED pool_frame

\* the rows are executed, each in its own try/except; then
\* commit_connection(conn): conn.commit(), self.return_connection(conn)
BatchCommit(job) ==
    /\ job_pc[job] = "rows"
    /\ \/ /\ checked_out' = checked_out - 1
          /\ Goto(job, "idle")
          /\ job_outcome' = [job_outcome EXCEPT ![job] = "returned"]
          /\ UNCHANGED faults
       \/ /\ PoolFails
          /\ Goto(job, "rollback")
          /\ UNCHANGED << checked_out, job_outcome >>
    /\ UNCHANGED pool_frame

\* except: rollback_connection(conn): conn.rollback(), self.return_connection(conn),
\* inside `try: ... except: pass`
BatchRollback(job) ==
    /\ job_pc[job] = "rollback"
    /\ \/ /\ checked_out' = checked_out - 1
          /\ UNCHANGED faults
       \/ /\ PoolFails
          /\ UNCHANGED checked_out
    /\ Goto(job, "idle")
    /\ job_outcome' = [job_outcome EXCEPT ![job] = "failed"]
    /\ UNCHANGED pool_frame

NextPool ==
    \E job \in PoolJobs :
        \/ QueryStart(job)
        \/ QueryEnd(job)
        \/ BatchBegin(job)
        \/ BatchCommit(job)
        \/ BatchRollback(job)

SpecPool == InitPool /\ [][NextPool]_vars

----------------------------------------------------------------------------
(* ContinuousGenerator.__init__: the initial data                           *)

INITIAL_USERS == 10000
INITIAL_DEVELOPERS == 10

\* games_count = random.randint(1, 3)
GamesCountDraws == 1 .. 3

\* count queries and inserts that fail during the construction
MaxSeedFaults == 1

\* the Store the process is started on: << users, developers, games >>; a game
\* needs a developer (REFERENCES developers)
InitialSeedStores == { << 0, 0, 0 >>, << 5, 0, 0 >>, << 0, 2, 0 >>, << 0, 2, 3 >>,
                       << 5, 2, 0 >>, << 5, 2, 3 >> }

seed_frame == << users_old, active_users_cnt, new_users, new_devs, new_games,
                 sim_day, start_month, start_weekday, ticks, job_pc, job_outcome,
                 queue, growth_loc, batch_size, added, emitted, last_active,
                 update_loc, delete_loc, store_log, fired, in_flight, store_ids,
                 assigned, legacy_vars, checked_out >>

NoSeed == [fn |-> "none", initial_devs |-> {}, dev_success |-> 0,
           total_games_created |-> 0]

\* the process starts: nothing of ContinuousGenerator exists yet
InitSeed ==
    /\ users_old = 0
    /\ \E store \in InitialSeedStores :
          /\ users_recent = store[1]
          /\ developers = store[2]
          /\ games = store[3]
    /\ start_month = 1
    /\ start_weekday = 0
    /\ sim_day = 0
    /\ active_users_cnt = 0
    /\ new_users = 0
    /\ new_devs = 0
    /\ new_games = 0
    /\ main_pc = "constructing"
    /\ ticks = 0
    /\ job_pc = [j \in Jobs |-> "idle"]
    /\ job_outcome = [j \in Jobs |-> "none"]
    /\ queue = << >>
    /\ growth_loc = [current_users |-> 0, current_games |-> 0, current_devs |-> 0, left |-> 0]
    /\ batch_size = [k \in Kinds |-> 0]
    /\ added = [k \in Kinds |-> 0]
    /\ emitted = [k \in Kinds |-> 0]
    /\ faults = 0
    /\ call = NoSeed
    /\ InitExt

SeedFails(n) ==
    /\ faults + n <= MaxSeedFaults
    /\ faults' = faults + n

\* a count as get_*_count returns it: fetch_one gives None when the query
\* fails, and the count is then 0
CountRead(count, ok) == IF ok THEN count ELSE 0

Failures(oks) == Cardinality({i \in DOMAIN oks : ~oks[i]})

\* self.generator = DataGenerator(...): the counters continue the ids of the
\* Store, which a program started on an empty Store numbers from 0;
\* then _should_generate_initial_data reads the three counts
ShouldGenerateInitialData ==
    /\ main_pc = "constructing"
    /\ id_counter' = [users |-> users_recent, developers |-> developers, games |-> games]
    /\ \E oks \in [1 .. 3 -> BOOLEAN] :
          LET user_count == CountRead(users_old + users_recent, oks[1])
              dev_count  == CountRead(developers, oks[2])
              game_count == CountRead(games, oks[3])
          IN  /\ SeedFails(Failures(oks))
              /\ main_pc' = IF user_count = 0 /\ dev_count = 0 /\ game_count = 0
                            THEN "seed_users" ELSE "scheduling"
    /\ UNCHANGED << seed_frame, users_recent, developers, games, call, pending >>

\* create_users_batch(INITIAL_USERS, sim_date) and insert_users_batch: the
\* batch is committed whole, or lost when the transaction fails
SeedUsers ==
    /\ main_pc = "seed_users"
    /\ id_counter' = [id_counter EXCEPT !["users"] = @ + INITIAL_USERS]
    /\ \/ /\ users_recent' = users_recent + INITIAL_USERS
          /\ UNCHANGED faults
       \/ /\ SeedFails(1)
          /\ UNCHANGED users_recent
    /\ main_pc' = "seed_developers"
    /\ UNCHANGED << seed_frame, developers, games, call, pending >>

\* create_developers_batch(INITIAL_DEVELOPERS, sim_date) and insert_developers_batch
SeedDevelopers ==
    /\ main_pc = "seed_developers"
    /\ id_counter' = [id_counter EXCEPT !["developers"] = @ + INITIAL_DEVELOPERS]
    /\ LET initial_devs == id_counter["developers"] ..
                               (id_counter["developers"] + INITIAL_DEVELOPERS - 1)
       IN  \/ /\ developers' = developers + INITIAL_DEVELOPERS
              /\ call' = [fn |-> "_generate_initial_data", initial_devs |-> initial_devs,
                          dev_success |-> INITIAL_DEVELOPERS, total_games_created |-> 0]
              /\ UNCHANGED faults
           \/ /\ SeedFails(1)
              /\ call' = [fn |-> "_generate_initial_data", initial_devs |-> initial_devs,
                          dev_success |-> 0, total_games_created |-> 0]
              /\ UNCHANGED developers
    /\ pending' = [kind |-> "games", ids |-> {}, owner |-> << >>, left |-> INITIAL_DEVELOPERS]
    /\ main_pc' = "seed_games"
    /\ UNCHANGED << seed_frame, users_recent, games >>

\* `for dev in initial_devs:` one turn: games_count games of this developer are
\* created and inserted; the insert fails when the developer's row is missing
\* (the foreign key) or the transaction fails.  pending keeps the games that
\* reached the Store, with their developers.
SeedGames ==
    /\ main_pc = "seed_games"
    /\ pending.left > 0
    /\ \E games_count \in GamesCountDraws :
          LET dev == id_counter["developers"] - pending.left
              ids == id_counter["games"] .. (id_counter["games"] + games_count - 1)
          IN  /\ id_counter' = [id_counter EXCEPT !["games"] = @ + games_count]
              /\ \/ /\ call.dev_success > 0
                    /\ games' = games + games_count
                    /\ call' = [call EXCEPT !.total_games_created = @ + games_count]
                    /\ pending' = [pending EXCEPT
                                     !.ids = @ \cup ids,
                                     !.owner = [g \in ids |-> dev] @@ @,
                                     !.left = @ - 1]
                    /\ UNCHANGED faults
                 \/ /\ \/ call.dev_success = 0 /\ UNCHANGED faults
                       \/ call.dev_success > 0 /\ SeedFails(1)
                    /\ pending' = [pending EXCEPT !.left = @ - 1]
                    /\ UNCHANGED << games, call >>
    /\ UNCHANGED << seed_frame, users_recent, developers, main_pc >>

\* the loop is over, the totals are printed and __init__ returns
SeedDone ==
    /\ main_pc = "seed_games"
    /\ pending.left = 0
    /\ main_pc' = "scheduling"
    /\ UNCHANGED << seed_frame, users_recent, developers, games, call, pending,
                    id_counter, faults >>

NextSeed ==
    \/ ShouldGenerateInitialData
    \/ SeedUsers
    \/ SeedDevelopers
    \/ SeedGames
    \/ SeedDone

SpecSeed == InitSeed /\ [][NextSeed]_vars

----------------------------------------------------------------------------
(* run_scheduler on a Store without users                                   *)

\* Stores with developers or games and no user: the constructor generates no
\* initial data on them
NoUserStores ==
    { [old |-> 0, recent |-> 0, developers |-> 2,   games |-> 0],
      [old |-> 0, recent |-> 0, developers |-> 175, games |-> 20],
      [old |-> 0, recent |-> 0, developers |-> 700, games |-> 3] }

InitNoUsers ==
    /\ \E s \in NoUserStores :
          /\ users_old = s.old
          /\ users_recent = s.recent
          /\ developers = s.developers
          /\ games = s.games
    /\ \E d \in StartDates :
          /\ start_month = d.month
          /\ start_weekday = d.weekday
    /\ sim_day = 0
    /\ active_users_cnt = 0
    /\ new_users = 0
    /\ new_devs = 0
    /\ new_games = 0
    /\ main_pc = "first_growth"
    /\ ticks = 0
    /\ job_pc = [j \in Jobs |-> IF j = GrowthJob THEN "count_users" ELSE "idle"]
    /\ job_outcome = [j \in Jobs |-> "none"]
    /\ queue = << >>
    /\ growth_loc = [current_users |-> 0, current_games |-> 0, current_devs |-> 0, left |-> 0]
    /\ batch_size = [k \in Kinds |-> 0]
    /\ added = [k \in Kinds |-> 0]
    /\ emitted = [k \in Kinds |-> 0]
    /\ faults = 0
    /\ call = NoCall
    /\ InitExt

SpecNoUsers == InitNoUsers /\ [][Next]_vars

----------------------------------------------------------------------------
(* Properties                                                              *)

Quiescent == \A j \in Jobs : ~Running(j)

\* C1: conservation.  For each accumulator, whenever no job is running, the
\* batches emitted so far times the emission threshold, plus the carry, equal
\* the sum of the deltas accumulated so far.
C1_Conservation ==
    Quiescent =>
        \A kind \in Kinds :
            emitted[kind] * Threshold(kind) * Unit + Accumulator(kind) = added[kind]

\* a tick is complete: after a wake-up of the scheduler, calculate_daily_growth
\* and the three generate_*_batch jobs have each run and returned
TickCompleted ==
    /\ ticks > 0
    /\ queue = << >>
    /\ Quiescent
    /\ \A j \in {GrowthJob} \cup {EmitJob(kind) : kind \in Kinds} :
          job_outcome[j] = "returned"

\* C2: after every completed tick, in whatever order its jobs ran, every
\* accumulator holds 0 <= carry < emission threshold.
C2_CarryInRange ==
    TickCompleted =>
        \A kind \in Kinds :
            /\ 0 <= Accumulator(kind)
            /\ Accumulator(kind) < Threshold(kind) * Unit

\* C3: a generate_*_batch job reads its accumulator (it starts) only when the
\* calculate_daily_growth of the same wake-up has returned.
C3_GrowthBeforeEmit ==
    [][\A kind \in Kinds :
          (job_pc[EmitJob(kind)] = "due" /\ job_pc'[EmitJob(kind)] # "due")
              => job_pc[GrowthJob] = "idle"]_vars

\* C4: no update of an accumulator is lost.  The store of every `+=` of
\* calculate_daily_growth leaves the accumulator at the value it held just
\* before the store plus the delta, as it does in a serial order with the
\* matching generate_*_batch job.
C4_NoLostUpdate ==
    [][/\ (job_pc[GrowthJob] = "add_users" /\ job_pc'[GrowthJob] # "add_users")
            => new_users' - new_users = added'["users"] - added["users"]
       /\ (job_pc[GrowthJob] = "add_devs" /\ job_pc'[GrowthJob] # "add_devs")
            => new_devs' - new_devs = added'["developers"] - added["developers"]
       /\ (job_pc[GrowthJob] = "add_games" /\ job_pc'[GrowthJob] # "add_games")
            => new_games' - new_games = added'["games"] - added["games"]]_vars

\* C5: an exception raised inside a task never stops the scheduler: whenever
\* a task has raised, the tasks are still being run.
C5_IsolatedFailures ==
    (\E j \in Jobs : job_outcome[j] = "raised") => main_pc = "scheduling"

\* the step in which the creation or the insert of a drained user batch fails
FailedUserInsert ==
    /\ job_pc["generate_users"] = "insert"
    /\ job_pc'["generate_users"] = "idle"
    /\ faults' # faults

\* C6: when the creation or the insert of a drained user batch fails, the
\* accumulator keeps the carry it has (the drain is not rolled back), no row
\* reaches the Store, and the batch is dropped: nothing is left to emit again.
C6_FailedBatchLost ==
    [][FailedUserInsert =>
          /\ new_users' = new_users
          /\ get_user_count' = get_user_count
          /\ batch_size'["users"] = 0
          /\ emitted' = emitted]_vars

C6_Witness ==
    /\ job_outcome["generate_users"] = "raised"
    /\ emitted["users"] > 0
    /\ faults > 0

C8_GrowthNonNegative ==
    call.fn # "none" => call.result >= 0

\* C9: calculate_daily_user_growth returns at most 0.05 x current_users
\* (in hundredths: 5 x current_users).
C9_UserGrowthCapped ==
    call.fn = "calculate_daily_user_growth" => call.result <= 5 * call.current_users

\* the cap decides the result of a call
C9_Witness ==
    /\ call.fn = "calculate_daily_user_growth"
    /\ call.current_users > 0
    /\ call.result = 5 * call.current_users

\* C10: in every state, active_users_cnt is at most the number of users in
\* the Store.
C10_ActiveWithinStore ==
    active_users_cnt <= get_user_count

\* C11: the activity rate lies in [0.25, 0.8] and the active count is
\* floor(rate x users), so at most the users counted (rate in ten-thousandths).
C11_ActivityBounded ==
    call.fn = "activity" =>
        /\ 25 * Unit <= call.rate
        /\ call.rate <= 80 * Unit
        /\ call.result * (Unit * Unit) <= call.current_users * call.rate
        /\ call.current_users * call.rate < (call.result + 1) * (Unit * Unit)
        /\ call.result <= call.current_users

\* the lower clamp decides the rate and some users are active
C11_Witness ==
    /\ call.fn = "activity"
    /\ call.rate = 25 * Unit
    /\ call.result > 0
    /\ call.result < call.current_users

\* C12: the simulated date never moves backward: of two wall clock reads
\* t1 <= t2 after the start, the date at t1 is not after the date at t2.
C12_ClockMonotonic ==
    (call.fn = "get_simulated_date" /\ call.t1 <= call.t2) => call.date1 <= call.date2

\* a later read on a later simulated day, more than a day of real time on
C12_Witness ==
    /\ call.fn = "get_simulated_date"
    /\ call.t1 < call.t2
    /\ call.t2 > 86400
    /\ call.date1 < call.date2

\* the step in which the DELETE of delete_old_users is executed without error
DeleteExecuted ==
    /\ job_pc[DEL] = "locked"
    /\ job_pc'[DEL] = "idle"
    /\ faults' = faults

\* C13: pruning is idempotent.  A prune whose delete follows the delete of the
\* previous prune, with no other statement on the users table in between,
\* removes no user.
C13_PruneIdempotent ==
    [][(DeleteExecuted /\ store_log = "delete") => delete_loc'.delete_cnt = 0]_vars

Stamped ==
    {id \in {update_loc.active_ids[i] : i \in 1 .. update_loc.position} :
        id \in DOMAIN last_active /\ last_active[id] = update_loc.current_time}

\* C15: the update of a row and the delete of a prune are never inside their
\* statements together, and a row an update has stamped with the simulated
\* date-time before the delete is executed is not removed by that delete.
C15_PruneSafeWithUpdates ==
    [][/\ ~(job_pc'[UPD] = "locked" /\ job_pc'[DEL] = "locked")
       /\ DeleteExecuted => \A id \in Stamped : id \in DOMAIN last_active']_vars

\* a prune removed rows while an update was between two of its ids, and a row
\* that update had stamped is still there
C15_Witness ==
    /\ job_pc[UPD] = "loop"
    /\ update_loc.position > 0
    /\ update_loc.position < Len(update_loc.active_ids)
    /\ Stamped # {}
    /\ store_log = "delete"
    /\ delete_loc.delete_cnt > 0

Range(seq) == {seq[i] : i \in 1 .. Len(seq)}

\* C16: the active ids are pairwise distinct ids of the list just read: all of
\* it when active_users_cnt is at least its length, else active_users_cnt of
\* them; with no user in the Store no update is attempted.
C16_ActiveIdsSampled ==
    /\ job_pc[UPD] \in {"loop", "locked"} =>
          /\ \A i, j \in 1 .. Len(update_loc.active_ids) :
                i # j => update_loc.active_ids[i] # update_loc.active_ids[j]
          /\ Range(update_loc.active_ids) \subseteq Range(update_loc.all_user_ids)
          /\ active_users_cnt >= Len(update_loc.all_user_ids)
                => Range(update_loc.active_ids) = Range(update_loc.all_user_ids)
          /\ active_users_cnt < Len(update_loc.all_user_ids)
                => Len(update_loc.active_ids) = active_users_cnt
    /\ update_loc.all_user_ids = << >> =>
          /\ job_pc[UPD] \notin {"loop", "locked"}
          /\ update_loc.tried = 0

\* two of three ids are sampled, not in the order of the list
C16_Witness ==
    /\ job_pc[UPD] = "loop"
    /\ Len(update_loc.all_user_ids) = 3
    /\ Len(update_loc.active_ids) = 2
    /\ update_loc.active_ids[1] > update_loc.active_ids[2]

\* C17: a failed update of one id does not end the loop: every id before the
\* position has been attempted, and the run that returns has attempted all
\* sampled ids, with 0 <= success_count <= attempted.
C17_PartialFailureContinues ==
    /\ update_loc.tried = update_loc.position
    /\ 0 <= update_loc.success_count
    /\ update_loc.success_count <= update_loc.tried
    /\ (job_pc[UPD] \in {"idle", "due"}) => update_loc.tried = Len(update_loc.active_ids)

\* the update of the first sampled id failed and the second id was stamped
C17_Witness ==
    /\ job_pc[UPD] = "idle"
    /\ job_outcome[UPD] = "returned"
    /\ Len(update_loc.active_ids) >= 2
    /\ update_loc.success_count = Len(update_loc.active_ids) - 1
    /\ update_loc.active_ids[1] \in DOMAIN last_active
    /\ last_active[update_loc.active_ids[1]] # update_loc.current_time
    /\ update_loc.active_ids[2] \in DOMAIN last_active
    /\ last_active[update_loc.active_ids[2]] = update_loc.current_time

\* C18: a drain of carry c with emission threshold T returns floor(c / T) and
\* leaves c mod T (0 returned and the carry unchanged when c < T), for users
\* (T = 5) as for developers and games (T = 1).
C18_DrainExact ==
    call.fn = "drain" =>
        /\ call.batch_size = call.carry \div (Threshold(call.kind) * Unit)
        /\ call.left = call.carry % (Threshold(call.kind) * Unit)
        /\ call.carry < Threshold(call.kind) * Unit
              => (call.batch_size = 0 /\ call.left = call.carry)

\* C19: after t ticks the scheduler has invoked calculate_daily_growth, the
\* three batch emissions, update_active_users (and add_transaction) t times,
\* delete_old_users once for every 30 ticks and print_statistics once for
\* every 5 ticks, so that 30 growth recomputations fall between two prunes.
C19_Cadences ==
    main_pc = "scheduling" => \A j \in Jobs : fired[j] = sim_day \div Interval(j)

\* C20: no task has two invocations in flight at a time, also when a run
\* lasts beyond the next fire time of its job.
C20_NoOverlap ==
    \A j \in Jobs : in_flight[j] <= 1

\* a run of calculate_daily_growth has lasted beyond a fire time of its job
C20_Witness ==
    /\ main_pc = "scheduling"
    /\ in_flight["calculate_daily_growth"] = 1
    /\ fired["calculate_daily_growth"] < sim_day

\* a step of the run of print_statistics
StatisticsStep == job_pc["print_stats"] = "due" /\ job_pc'["print_stats"] = "idle"

\* C21: a run of print_statistics changes neither the accumulators, nor
\* active_users_cnt, nor anything the Store holds.
C21_StatisticsObservational ==
    [][StatisticsStep => UNCHANGED << new_users, new_devs, new_games, active_users_cnt,
                                      store_vars, last_active >>]_vars

\* print_statistics has run with growth accumulated and users active
C21_Witness ==
    /\ job_outcome["print_stats"] = "returned"
    /\ active_users_cnt >= 5
    /\ new_users + new_devs + new_games > 0

\* a step of a run of calculate_daily_growth
GrowthStep ==
    /\ job_pc'[GrowthJob] # job_pc[GrowthJob]
    /\ job_pc'[GrowthJob] # "due"

\* C22: a run of calculate_daily_growth writes the three accumulators only: it
\* leaves the Store and active_users_cnt as they were.
C22_GrowthWritesAccumulatorsOnly ==
    [][GrowthStep => UNCHANGED << active_users_cnt, store_vars, last_active >>]_vars

\* C23: the developer_id of every game generate_games_batch creates is the id
\* of a developer the Store holds when the game is created.
C23_GameDeveloperExists ==
    [][(pending.kind = "games" /\ pending'.kind = "games" /\ pending'.left < pending.left)
          => \A g \in pending'.ids \ pending.ids :
                pending'.owner[g] \in store_ids["developers"]]_vars

\* the ids a step puts on new records of a kind
NewIds(kind) ==
    IF pending' # pending /\ pending'.kind = kind
    THEN id_counter[kind] .. (id_counter'[kind] - 1)
    ELSE {}

\* C26: every id put on a new user, developer or game differs from every id
\* in the Store and from every id assigned before, whatever batches, failed
\* inserts, prunes and restarts came before.
C26_FreshIds ==
    [][\A kind \in Kinds : \A id \in NewIds(kind) :
          id \notin store_ids[kind] /\ id \notin assigned[kind]]_vars

\* C24: what one run of calculate_daily_growth adds to the games accumulator
\* is at most developerCount / 175, for the developer count the run read at
\* its start (0 when it counted no developer).
C24_GameGrowthCapped ==
    [][(job_pc[GrowthJob] = "add_games" /\ job_pc'[GrowthJob] # "add_games")
          => added'["games"] - added["games"] <= game_cap(growth_loc.current_devs)]_vars

\* C25: a call of check_and_update_day on the simulated day of the last
\* update returns (False, 0, 0, 0) and leaves market_state and stats as they
\* were: the growth of a day is applied at most once.
C25_LegacyOncePerDay ==
    [][(ticks' = ticks + 1 /\ market_state.last_update_day = sim_day)
          => /\ call'.day_changed = FALSE
             /\ call'.user_growth = 0 /\ call'.dev_growth = 0 /\ call'.game_growth = 0
             /\ market_state' = market_state
             /\ stats' = stats]_vars

\* C27: every connection a repository operation takes is back in the pool
\* when the operation has ended, on success and on every error path: with no
\* operation running no connection is checked out.
C27_NoConnectionLeak ==
    (\A j \in Jobs : job_pc[j] = "idle") => checked_out = 0

\* C28: the success count of update_active_users is the number of sampled
\* users whose last_active was set: an id is counted exactly when its update
\* wrote the row, and an id whose row a prune removed after the ids were read
\* is not counted.
C28_SuccessCountsRowsSet ==
    [][(job_pc[UPD] = "locked" /\ job_pc'[UPD] = "loop") =>
          LET user_id == update_loc.active_ids[update_loc.position + 1]
              counted == update_loc'.success_count - update_loc.success_count
              row_set == /\ user_id \in DOMAIN last_active'
                         /\ last_active'[user_id] = update_loc.current_time
                         /\ faults' = faults
          IN  counted = IF row_set THEN 1 ELSE 0]_vars

StoreEmpty == users_old + users_recent = 0 /\ developers = 0 /\ games = 0

\* C29: the initial data are generated at construction exactly when the Store
\* holds no user, no developer and no game; generated on an empty Store with
\* no failure they leave 10000 users, 10 developers and 10 to 30 games, each of
\* a generated developer; on any other Store the construction changes nothing.
C29_SeedingIffEmpty ==
    [][/\ (main_pc = "constructing" /\ main_pc' # "constructing")
            => /\ (main_pc' = "seed_users") <=> StoreEmpty
               /\ UNCHANGED store_vars
       /\ (main_pc = "seed_games" /\ main_pc' = "scheduling" /\ faults = 0)
            => /\ users_recent = INITIAL_USERS
               /\ developers = INITIAL_DEVELOPERS
               /\ games \in 10 .. 30
               /\ Cardinality(pending.ids) = games
               /\ \A g \in pending.ids : pending.owner[g] \in call.initial_devs]_vars

\* C30: on a Store with developers or games and no user the user accumulator
\* stays 0 and no user is created: every day's user growth is at most 5 % of
\* the current users, which is 0.
C30_NoUsersNoGrowth ==
    /\ new_users = 0
    /\ added["users"] = 0
    /\ emitted["users"] = 0
    /\ users_old + users_recent = 0

\* the growth job ran at construction and at a wake-up, generate_users_batch
\* returned, and meanwhile developers were created
C30_Witness ==
    /\ ticks = 1
    /\ job_pc[GrowthJob] = "idle"
    /\ job_outcome[GrowthJob] = "returned"
    /\ job_outcome[EmitJob("users")] = "returned"
    /\ emitted["developers"] > 0
    /\ growth_loc.current_users = 0
    /\ growth_loc.current_devs > 0

=============================================================================
